---- MODULE Spec2Model ----
(***************************************************************************)
(* A model of pomdp_py/utils/debugging.py: the _NodePP navigation proxy,   *)
(* the recursive tree printer, the TreeDebugger session object with its    *)
(* statistics cache, and the preferred-action trace.                       *)
(*                                                                         *)
(* The search tree (VNode / QNode objects of pomdp_py.algorithms.po_uct)   *)
(* is owned by the planner.  It is modelled as the sequence `nodes`: the   *)
(* node with identity n is nodes[n], and the Python dict `children` is the *)
(* sequence of its items in insertion order (the iteration order of a      *)
(* dict).                                                                   *)
(***************************************************************************)
EXTENDS Integers, Sequences, FiniteSets, TLC

VARIABLES
    nodes,        \* the planner's tree: nodes[n] = [cls, num_visits, value, children]
    tree,         \* TreeDebugger.tree     (a proxy; NoProxy before construction)
    current,      \* TreeDebugger.current  (the same proxy object as tree)
    parent_edge,  \* TreeDebugger.parent_edge
    stats_cache,  \* TreeDebugger._stats_cache: id(proxy) -> stats
    out           \* what the last call returned, printed or raised

vars == <<nodes, tree, current, parent_edge, stats_cache, out>>

(***************************************************************************)
(* Bounds of the model.                                                    *)
(***************************************************************************)
MaxNodes == 4
MaxDepthArg == 2

(***************************************************************************)
(* Python values.  None for an optional integer is the empty tuple and an  *)
(* integer d is <<d>>.  An edge label (an action or an observation) or a   *)
(* lookup key is [t, v]: a Python int ("int", v = <<i>>), a Python str     *)
(* ("str", v = its characters as code points) or an object of a user class *)
(* ("obj", v = the characters of its str()).  Equality of two labels is    *)
(* equality of these records.                                              *)
(***************************************************************************)
None == <<>>
NoEdge == [t |-> "none", v |-> <<>>]
IntKey(i) == [t |-> "int", v |-> <<i>>]
StrKey(s) == [t |-> "str", v |-> s]
ObjKey(s) == [t |-> "obj", v |-> s]

RECURSIVE Digits(_)
Digits(i) == IF i < 10 THEN <<48 + i>> ELSE Digits(i \div 10) \o <<48 + (i % 10)>>

\* str(e) of a label, as a sequence of code points
str(e) ==
    IF e.t = "int"
    THEN IF e.v[1] < 0 THEN <<45>> \o Digits(-e.v[1]) ELSE Digits(e.v[1])
    ELSE e.v

\* a < b for two Python strings
RECURSIVE StrLess(_, _)
StrLess(a, b) ==
    IF b = <<>> THEN FALSE
    ELSE IF a = <<>> THEN TRUE
    ELSE IF a[1] /= b[1] THEN a[1] < b[1]
    ELSE StrLess(Tail(a), Tail(b))

\* the place of x in the already sorted s: after every element not greater
\* than it (sorted() is stable)
RECURSIVE InsertByStr(_, _)
InsertByStr(x, s) ==
    IF s = <<>> THEN <<x>>
    ELSE IF StrLess(str(x), str(s[1])) THEN <<x>> \o s
    ELSE <<s[1]>> \o InsertByStr(x, Tail(s))

\* sorted_by_str without the sort: the edges in the order of the dict
sorted_by_str_unsorted(enumerable) == enumerable

RECURSIVE sorted_by_str(_)
sorted_by_str(enumerable) ==
    IF enumerable = <<>> THEN <<>>
    ELSE InsertByStr(enumerable[Len(enumerable)],
                     sorted_by_str(SubSeq(enumerable, 1, Len(enumerable) - 1)))

(***************************************************************************)
(* The children dict of a node.                                            *)
(***************************************************************************)
\* list(children.keys()): the edge labels in insertion order
Keys(n) == [i \in 1..Len(nodes[n].children) |-> nodes[n].children[i].edge]

\* key in children
HasKey(n, key) == \E i \in 1..Len(nodes[n].children) : nodes[n].children[i].edge = key

\* children[key]
ChildAt(n, key) ==
    nodes[n].children[CHOOSE i \in 1..Len(nodes[n].children) :
                          nodes[n].children[i].edge = key].child

IsVNode(n) == nodes[n].cls = "VNode"
IsQNode(n) == nodes[n].cls = "QNode"

(***************************************************************************)
(* _node_pp, _VNodePP, _QNodePP: the proxy of node `node` reached by edge  *)
(* p.  It shares the node's children dict, so it is the node's identity    *)
(* plus its own fields.  id is the proxy object's identity: 1 for the one  *)
(* the debugger keeps, 0 for a temporary.                                  *)
(***************************************************************************)
NoProxy == [id |-> 0, node |-> 0, cls |-> "None", parent_edge |-> NoEdge,
            print_children |-> FALSE]

_node_pp(node, p) ==
    [id |-> 0,
     node |-> node,
     cls |-> IF IsVNode(node) THEN "_VNodePP" ELSE "_QNodePP",
     parent_edge |-> p,
     print_children |-> TRUE]

Return(v) == [ok |-> TRUE, val |-> v]
Raise(e) == [ok |-> FALSE, err |-> e]

(***************************************************************************)
(* _NodePP.__getitem__.  similar(str(edge), key) is sim[str(edge)], in     *)
(* tenths; SIMILAR_THRESH = 0.6 is 6 tenths.                                *)
(***************************************************************************)
SIMILAR_THRESH == 6

\* max(seq, key = lambda edge: sim[str(edge)]): the first of the greatest
RECURSIVE MaxBySimilar(_, _)
MaxBySimilar(edges, sim) ==
    IF Len(edges) = 1 THEN edges[1]
    ELSE LET rest == MaxBySimilar(SubSeq(edges, 1, Len(edges) - 1), sim)
             last == edges[Len(edges)]
         IN IF sim[str(last)] > sim[str(rest)] THEN last ELSE rest

\* edges[key] of a Python list: a negative key counts from the end
ListIndex(edges, key) == IF key >= 0 THEN key + 1 ELSE Len(edges) + key + 1

NodePP_getitem(n, key, sim) ==
    IF HasKey(n, key)
    THEN Return(_node_pp(ChildAt(n, key), key))
    ELSE IF key.t = "int"
    THEN LET edges == sorted_by_str(Keys(n))
             i == ListIndex(edges, key.v[1])
         IN IF i \in 1..Len(edges)
            THEN Return(_node_pp(ChildAt(n, edges[i]), edges[i]))
            ELSE Raise("IndexError")
    ELSE IF key.t = "str"
    THEN IF Keys(n) = <<>>
         THEN Raise("ValueError")     \* max() of an empty sequence
         ELSE LET chosen == MaxBySimilar(Keys(n), sim)
              IN IF sim[str(chosen)] >= SIMILAR_THRESH
                 THEN Return(_node_pp(ChildAt(n, chosen), chosen))
                 ELSE Raise("ValueError")
    ELSE Raise("ValueError")

\* root[c] for an edge c of root, as the traversals use it
Sub(n, c) == NodePP_getitem(n, c, <<>>).val

(***************************************************************************)
(* TreeDebugger.single_node_str and the proxies' __str__.  The text is     *)
(* kept as its parts: the parent edge before the arrow, the class name,    *)
(* n and v, and (with include_children) one entry per child in the order   *)
(* of sorted_by_str.  A proxy copies num_visits and value when it is       *)
(* built; the planner of this model sets both when it creates a node and   *)
(* not after, so the copy and the node agree.                              *)
(***************************************************************************)
NodeInfo(n, name, p_edge) ==
    [edge |-> p_edge, name |-> name, n |-> nodes[n].num_visits, v |-> nodes[n].value]

single_node_str(n, name, p_edge, include_children) ==
    [head |-> NodeInfo(n, name, p_edge),
     include_children |-> include_children,
     children |->
        IF include_children
        THEN LET actions == sorted_by_str(Keys(n))
             IN [i \in 1..Len(actions) |->
                    [i |-> i - 1,
                     action |-> actions[i],
                     child_info |-> NodeInfo(ChildAt(n, actions[i]),
                                             nodes[ChildAt(n, actions[i])].cls,
                                             NoEdge)]]
        ELSE <<>>]

\* _VNodePP.__str__ / _QNodePP.__str__
NodePP_str(px) == single_node_str(px.node, px.cls, px.parent_edge, px.print_children)

(***************************************************************************)
(* _NodePP._print_tree_helper: the lines print() emits, in order.  A line  *)
(* is its branch glyphs (one per element: "|    " for the vertical bar and *)
(* four spaces, "     " for five spaces, "+--- " and "L--- " for the tee   *)
(* and the corner), the text of str(root) and, for a VNode, the depth      *)
(* annotation.  The field node is the identity of the node the line is     *)
(* for.                                                                    *)
(***************************************************************************)
RECURSIVE Preceding(_)
Preceding(positions) ==
    IF positions = <<>> THEN <<>>
    ELSE LET pos == positions[1]
         IN (IF pos = "None" THEN <<>>
             ELSE IF pos = "first" \/ pos = "middle" THEN <<"|    ">>
             ELSE <<"     ">>) \o Preceding(Tail(positions))

Branches(branch_positions) ==
    LET last_position == branch_positions[Len(branch_positions)]
    IN Preceding(SubSeq(branch_positions, 1, Len(branch_positions) - 1))
       \o (IF last_position = "None" THEN <<>>
           ELSE IF last_position = "first" \/ last_position = "middle" THEN <<"+--- ">>
           ELSE <<"L--- ">>)

\* the filter with the comparison num_visits >= 1 in place of > 1
PrintFilterAtLeastOne(print_type, child) ==
    print_type = "complete" \/ nodes[child.node].num_visits >= 1

\* the test that lets a child of root be printed
PrintFilter(print_type, child) ==
    print_type = "complete" \/ nodes[child.node].num_visits > 1

\* the depth rule with every edge counted
NextDepthEveryEdge(child, depth) == depth + 1

\* depth of a child of a node at depth `depth`
NextDepth(child, depth) == IF child.cls = "_QNodePP" THEN depth ELSE depth + 1

\* the test that ends the recursion
PastMaxDepth(depth, max_depth) == max_depth /= None /\ depth > max_depth[1]

RECURSIVE _print_tree_helper(_, _, _, _, _, _)
RECURSIVE PrintChildren(_, _, _, _, _, _)

\* the for loop of _print_tree_helper from its i-th iteration on
PrintChildren(root, i, branch_positions, depth, max_depth, print_type) ==
    LET cs == sorted_by_str(Keys(root.node))
    IN IF i >= Len(cs) THEN <<>>
       ELSE LET c == cs[i + 1]
                child == Sub(root.node, c)
                next_pos == IF i = Len(nodes[root.node].children) - 1 THEN "last"
                            ELSE IF i = 0 THEN "first"
                            ELSE "middle"
            IN (IF PrintFilter(print_type, child)
                THEN _print_tree_helper(child, c, Append(branch_positions, next_pos),
                                        NextDepth(child, depth), max_depth, print_type)
                ELSE <<>>)
               \o PrintChildren(root, i + 1, branch_positions, depth, max_depth, print_type)

_print_tree_helper(root, p_edge, branch_positions, depth, max_depth, print_type) ==
    IF PastMaxDepth(depth, max_depth) THEN <<>>
    ELSE <<[node |-> root.node,
            branches |-> Branches(branch_positions),
            text |-> NodePP_str([root EXCEPT !.print_children = FALSE]),
            depth |-> IF root.cls = "_VNodePP" THEN <<depth>> ELSE None]>>
         \o PrintChildren(root, 0, branch_positions, depth, max_depth, print_type)

\* _NodePP.print_tree
print_tree(self, max_depth, print_type) ==
    _print_tree_helper(self, NoEdge, <<"None">>, 0, max_depth, print_type)

(***************************************************************************)
(* TreeDebugger.tree_stats and _tree_stats_helper.                         *)
(***************************************************************************)
Max(a, b) == IF a >= b THEN a ELSE b

RECURSIVE _tree_stats_helper(_, _, _, _)
RECURSIVE StatsChildren(_, _, _, _, _)

\* what visiting root does to stats before its children are visited
StatsVisit(root, depth, stats) ==
    LET len == Len(nodes[root.node].children)
    IN IF root.cls = "_VNodePP"
       THEN [stats EXCEPT !.total_vnodes = @ + 1,
                          !.total_vnodes_children = @ + len,
                          !.max_vnodes_children = Max(@, len),
                          !.max_depth = depth]
       ELSE [stats EXCEPT !.total_qnodes = @ + 1,
                          !.total_qnodes_children = @ + len,
                          !.max_qnodes_children = Max(@, len)]

\* the for loop of _tree_stats_helper from its i-th child on (dict order)
StatsChildren(root, i, depth, stats, max_depth) ==
    IF i > Len(Keys(root.node)) THEN stats
    ELSE StatsChildren(root, i + 1, depth,
                       _tree_stats_helper(Sub(root.node, Keys(root.node)[i]),
                                          depth + 1, stats, max_depth),
                       max_depth)

_tree_stats_helper(root, depth, stats, max_depth) ==
    IF PastMaxDepth(depth, max_depth) THEN stats
    ELSE StatsChildren(root, 1, depth, StatsVisit(root, depth, stats), max_depth)

tree_stats(root, max_depth) ==
    LET stats == _tree_stats_helper(root, 0,
                    [total_vnodes |-> 0, total_qnodes |-> 0,
                     total_vnodes_children |-> 0, total_qnodes_children |-> 0,
                     max_vnodes_children |-> 0, max_qnodes_children |-> 0,
                     max_depth |-> -1],
                    max_depth)
    IN [total_vnodes |-> stats.total_vnodes,
        total_qnodes |-> stats.total_qnodes,
        total_vnodes_children |-> stats.total_vnodes_children,
        total_qnodes_children |-> stats.total_qnodes_children,
        max_vnodes_children |-> stats.max_vnodes_children,
        max_qnodes_children |-> stats.max_qnodes_children,
        max_depth |-> stats.max_depth,
        num_visits |-> nodes[root.node].num_visits,
        value |-> nodes[root.node].value]

\* TreeDebugger._get_stats: the stats it returns and the cache it leaves
_get_stats ==
    IF current.id \in DOMAIN stats_cache
    THEN [stats |-> stats_cache[current.id], cache |-> stats_cache]
    ELSE LET stats == tree_stats(current, None)
         IN [stats |-> stats, cache |-> (current.id :> stats) @@ stats_cache]

\* the value num_nodes returns or the error it raises, given the stats
num_nodes(stats, kind) ==
    IF kind = "all" THEN Return(stats.total_vnodes + stats.total_qnodes)
    ELSE IF kind = "q" THEN Return(stats.total_qnodes)
    ELSE IF kind = "v" THEN Return(stats.total_vnodes)
    ELSE Raise("ValueError")

(***************************************************************************)
(* TreeDebugger._layer_helper: the list `nodes` of the source is `found`.  *)
(***************************************************************************)
RECURSIVE _layer_helper(_, _, _, _)
RECURSIVE LayerChildren(_, _, _, _, _)

LayerChildren(root, i, current_depth, target_depth, found) ==
    LET cs == sorted_by_str(Keys(root.node))
    IN IF i > Len(cs) THEN found
       ELSE LET child == Sub(root.node, cs[i])
            IN LayerChildren(root, i + 1, current_depth, target_depth,
                             _layer_helper(child, NextDepth(child, current_depth),
                                           target_depth, found))

_layer_helper(root, current_depth, target_depth, found) ==
    IF current_depth = target_depth
    THEN IF root.cls = "_VNodePP" THEN Append(found, root) ELSE found
    ELSE LayerChildren(root, 1, current_depth, target_depth, found)

\* the value layer returns or the error it raises, given self.depth
layer(self_depth, depth, as_debuggers) ==
    IF depth < 0 \/ depth > self_depth
    THEN Raise("ValueError")
    ELSE Return(_layer_helper(current, 0, depth, <<>>))

(***************************************************************************)
(* print_preferred_actions: one entry per visited node that has a best     *)
(* child; printed tells whether the helper printed the line                *)
(* "  best_child  equally_good" for it.  The tree here is the planner's    *)
(* own node, whose root[c] is children[c].                                 *)
(***************************************************************************)
\* float('-inf'): below every value of the model
NegInf == -1

\* the first loop with >= in place of >: the last child of the greatest value
RECURSIVE BestChildLast(_, _, _)
BestChildLast(root, i, best) ==
    IF i > Len(Keys(root)) THEN best
    ELSE LET c == Keys(root)[i]
         IN BestChildLast(root, i + 1,
                          IF nodes[ChildAt(root, c)].value >= best.best_value
                          THEN [best_child |-> c, best_value |-> nodes[ChildAt(root, c)].value]
                          ELSE best)

\* the first loop: the first child of the greatest value
RECURSIVE BestChild(_, _, _)
BestChild(root, i, best) ==
    IF i > Len(Keys(root)) THEN best
    ELSE LET c == Keys(root)[i]
         IN BestChild(root, i + 1,
                      IF nodes[ChildAt(root, c)].value > best.best_value
                      THEN [best_child |-> c, best_value |-> nodes[ChildAt(root, c)].value]
                      ELSE best)

RECURSIVE _print_preferred_actions_helper(_, _, _)
_print_preferred_actions_helper(root, depth, max_depth) ==
    IF max_depth /= None /\ depth >= max_depth[1] THEN <<>>
    ELSE LET best == BestChild(root, 1, [best_child |-> NoEdge, best_value |-> NegInf])
             isgood(c) == ~(c = best.best_child)
                          /\ nodes[ChildAt(root, c)].value = best.best_value
             equally_good == IF IsVNode(root) THEN SelectSeq(Keys(root), isgood) ELSE <<>>
         IN IF best.best_child /= NoEdge
            THEN <<[node |-> root,
                    best_child |-> best.best_child,
                    equally_good |-> equally_good,
                    printed |-> IsQNode(ChildAt(root, best.best_child))]>>
                 \o _print_preferred_actions_helper(ChildAt(root, best.best_child),
                                                    depth + 1, max_depth)
            ELSE <<>>

print_preferred_actions(root, max_depth) ==
    _print_preferred_actions_helper(root, 0, max_depth)

(***************************************************************************)
(* The planner (pomdp_py.algorithms.po_uct) grows the tree between two     *)
(* calls of the debugger: it gives node p a new child under the edge e.    *)
(* The kinds alternate: the children of a VNode are QNodes and the         *)
(* children of a QNode are VNodes.                                         *)
(***************************************************************************)
NewNode(cls, num_visits, value) ==
    [cls |-> cls, num_visits |-> num_visits, value |-> value, children |-> <<>>]

PlannerAddNode(p, e, num_visits, value) ==
    /\ Len(nodes) < MaxNodes
    /\ ~HasKey(p, e)
    /\ nodes' = [Append(nodes, NewNode(IF IsVNode(p) THEN "QNode" ELSE "VNode",
                                       num_visits, value))
                   EXCEPT ![p].children = Append(@, [edge |-> e, child |-> Len(nodes) + 1])]
    /\ out' = [op |-> "plan"]
    /\ UNCHANGED <<tree, current, parent_edge, stats_cache>>

(***************************************************************************)
(* TreeDebugger.__init__(tree): arg is a node of the planner's tree, or 0  *)
(* for a value that is no TreeNode.                                        *)
(***************************************************************************)
TreeDebugger_init(arg) ==
    IF arg = 0
    THEN /\ out' = [op |-> "TreeDebugger", res |-> Raise("ValueError")]
         /\ UNCHANGED <<nodes, tree, current, parent_edge, stats_cache>>
    ELSE /\ tree' = [_node_pp(arg, NoEdge) EXCEPT !.id = 1]
         /\ current' = tree'
         /\ parent_edge' = NoEdge
         /\ stats_cache' = <<>>
         /\ out' = [op |-> "TreeDebugger", res |-> Return(arg)]
         /\ UNCHANGED nodes

Constructed == current /= NoProxy

\* TreeDebugger.__getitem__(key) with similar(str(edge), key) = sim[str(edge)]
GetItem(key, sim) ==
    /\ Constructed
    /\ out' = [op |-> "getitem", key |-> key, sim |-> sim,
               res |-> NodePP_getitem(current.node, key, sim)]
    /\ UNCHANGED <<nodes, tree, current, parent_edge, stats_cache>>

\* TreeDebugger.__str__
Str ==
    /\ Constructed
    /\ out' = [op |-> "str", text |-> NodePP_str(current)]
    /\ UNCHANGED <<nodes, tree, current, parent_edge, stats_cache>>

\* TreeDebugger.num_nodes(kind)
NumNodes(kind) ==
    /\ Constructed
    /\ LET got == _get_stats
       IN /\ stats_cache' = got.cache
          /\ out' = [op |-> "num_nodes", kind |-> kind, res |-> num_nodes(got.stats, kind)]
    /\ UNCHANGED <<nodes, tree, current, parent_edge>>

\* TreeDebugger.depth
Depth ==
    /\ Constructed
    /\ LET got == _get_stats
       IN /\ stats_cache' = got.cache
          /\ out' = [op |-> "depth", res |-> got.stats.max_depth]
    /\ UNCHANGED <<nodes, tree, current, parent_edge>>

\* TreeDebugger.layer(depth, as_debuggers): `depth < 0 or depth > self.depth`
\* reads self.depth, and so fills the cache, only when depth >= 0
Layer(depth, as_debuggers) ==
    /\ Constructed
    /\ IF depth < 0
       THEN /\ out' = [op |-> "layer", depth |-> depth, as_debuggers |-> as_debuggers,
                       res |-> layer(-1, depth, as_debuggers)]
            /\ UNCHANGED stats_cache
       ELSE LET got == _get_stats
            IN /\ stats_cache' = got.cache
               /\ out' = [op |-> "layer", depth |-> depth, as_debuggers |-> as_debuggers,
                          res |-> layer(got.stats.max_depth, depth, as_debuggers)]
    /\ UNCHANGED <<nodes, tree, current, parent_edge>>

\* TreeDebugger.p(max_depth, print_type): print_tree on current; the helper
\* clears print_children of every proxy it prints, current being the first,
\* and tree is that same object
P(max_depth, print_type) ==
    /\ Constructed
    /\ out' = [op |-> "p", max_depth |-> max_depth, print_type |-> print_type,
               lines |-> print_tree(current, max_depth, print_type)]
    /\ current' = IF PastMaxDepth(0, max_depth) THEN current
                  ELSE [current EXCEPT !.print_children = FALSE]
    /\ tree' = current'
    /\ UNCHANGED <<nodes, parent_edge, stats_cache>>

\* print_preferred_actions(tree, max_depth) on the planner's node root
PrintPreferredActions(root, max_depth) ==
    /\ out' = [op |-> "print_preferred_actions", tree |-> root, max_depth |-> max_depth,
               trace |-> print_preferred_actions(root, max_depth)]
    /\ UNCHANGED <<nodes, tree, current, parent_edge, stats_cache>>

(***************************************************************************)
(* The inputs.  The edge labels of a session are two objects whose str()   *)
(* is "a" and "b"; those of the lookups are the int 1, an object whose     *)
(* str() is "a" and the str "1", which has the string form of the int.     *)
(* Similarity scores are tenths below, at and above SIMILAR_THRESH.        *)
(***************************************************************************)
SessionEdges == {ObjKey(<<97>>), ObjKey(<<98>>)}                 \* a, b
LookupEdges == {IntKey(1), ObjKey(<<97>>), StrKey(<<49>>)}       \* 1, a, "1"
VisitCounts == {1, 2}
Values == {0, 1}
ScoreLevels == {5, 6, 7}
Kinds == {"all", "q", "v", "x"}
PrintTypes == {"summary", "complete"}
DepthArgs == {None} \cup {<<d>> : d \in 0..MaxDepthArg}
NodeIds == 1..Len(nodes)

\* the strings similar() is asked about: none when the key is found as it
\* is or is no string
SimDomain(key) ==
    IF Constructed /\ key.t = "str" /\ ~HasKey(current.node, key)
    THEN {str(Keys(current.node)[i]) : i \in 1..Len(Keys(current.node))}
    ELSE {}

Init ==
    /\ nodes = <<NewNode("VNode", 2, 0)>>
    /\ tree = NoProxy
    /\ current = NoProxy
    /\ parent_edge = NoEdge
    /\ stats_cache = <<>>
    /\ out = [op |-> "init"]

(***************************************************************************)
(* Spec: a debugging session on a tree the planner keeps growing.          *)
(***************************************************************************)
Plan == \E p \in NodeIds, e \in SessionEdges : PlannerAddNode(p, e, 2, 0)
Construct == \E arg \in {0} \cup NodeIds : TreeDebugger_init(arg)
Lookup == \E key \in SessionEdges \cup {IntKey(0)} : GetItem(key, <<>>)
CountNodes == \E kind \in Kinds : NumNodes(kind)
GetLayer == \E d \in -1..MaxNodes, as_debuggers \in BOOLEAN : Layer(d, as_debuggers)
Render == \E max_depth \in DepthArgs, print_type \in PrintTypes : P(max_depth, print_type)

Next == Plan \/ Construct \/ Lookup \/ Str \/ CountNodes \/ Depth \/ GetLayer \/ Render

Spec == Init /\ [][Next]_vars

(***************************************************************************)
(* SpecLayer: layer and depth on a tree the planner keeps growing.         *)
(***************************************************************************)
NextLayer == Plan \/ Construct \/ Depth \/ GetLayer

SpecLayer == Init /\ [][NextLayer]_vars

(***************************************************************************)
(* SpecRender: print_tree on trees of every shape and visit count.         *)
(***************************************************************************)
PlanRender == \E p \in NodeIds, e \in SessionEdges, n \in VisitCounts : PlannerAddNode(p, e, n, 0)

NextRender == PlanRender \/ Construct \/ Render \/ Str

SpecRender == Init /\ [][NextRender]_vars

(***************************************************************************)
(* SpecLookup: _NodePP.__getitem__ on every node, key and similarity.      *)
(***************************************************************************)
LookupKeys ==
    LookupEdges \cup {ObjKey(<<99>>), StrKey(<<120>>)}
                \cup {IntKey(i) : i \in (0 - MaxNodes)..MaxNodes}

PlanLookup == \E p \in NodeIds, e \in LookupEdges : PlannerAddNode(p, e, 1, 0)
LookupAny == \E key \in LookupKeys : \E sim \in [SimDomain(key) -> ScoreLevels] : GetItem(key, sim)

NextLookup == PlanLookup \/ Construct \/ LookupAny

SpecLookup == Init /\ [][NextLookup]_vars

(***************************************************************************)
(* SpecTrace: print_preferred_actions on trees of every shape and value.   *)
(***************************************************************************)
PlanTrace == \E p \in NodeIds, e \in SessionEdges, v \in Values : PlannerAddNode(p, e, 1, v)
Trace == \E root \in NodeIds, max_depth \in DepthArgs : PrintPreferredActions(root, max_depth)

NextTrace == PlanTrace \/ Trace

SpecTrace == Init /\ [][NextTrace]_vars

(***************************************************************************)
(* What the claims speak of, stated on the tree itself.                    *)
(***************************************************************************)
\* the node whose child m is (0 for the root of the planner's tree)
Parent(m) ==
    IF \E q \in NodeIds : \E i \in 1..Len(nodes[q].children) : nodes[q].children[i].child = m
    THEN CHOOSE q \in NodeIds : \E i \in 1..Len(nodes[q].children) : nodes[q].children[i].child = m
    ELSE 0

RECURSIVE InSubtree(_, _)
InSubtree(r, m) == m = r \/ (Parent(m) /= 0 /\ InSubtree(r, Parent(m)))

Subtree(r) == {m \in NodeIds : InSubtree(r, m)}

\* the number of edges from r down to m
RECURSIVE EdgesBetween(_, _)
EdgesBetween(r, m) == IF m = r THEN 0 ELSE 1 + EdgesBetween(r, Parent(m))

\* the number of Action -> Decision edges from r down to m
RECURSIVE DecisionDepth(_, _)
DecisionDepth(r, m) ==
    IF m = r THEN 0
    ELSE DecisionDepth(r, Parent(m))
         + (IF IsQNode(Parent(m)) /\ IsVNode(m) THEN 1 ELSE 0)

\* m is reached from r by a path whose nodes below r all pass the filter of
\* print_type and lie no deeper than max_depth
RECURSIVE Shown(_, _, _, _)
Shown(r, m, max_depth, print_type) ==
    \/ m = r
    \/ /\ Parent(m) /= 0
       /\ InSubtree(r, m)
       /\ print_type = "complete" \/ nodes[m].num_visits > 1
       /\ max_depth = None \/ DecisionDepth(r, m) <= max_depth[1]
       /\ Shown(r, Parent(m), max_depth, print_type)

SetOfNodes(seq) == {seq[i].node : i \in 1..Len(seq)}
SetOf(seq) == {seq[i] : i \in 1..Len(seq)}

\* the proxy lookup must return for the child under edge e of current
ChildProxy(e) == Return(_node_pp(ChildAt(current.node, e), e))

\* the place of the i-th inserted edge among the edges sorted by str
SortedPosition(n, i) ==
    Cardinality({j \in 1..Len(Keys(n)) :
                    \/ StrLess(str(Keys(n)[j]), str(Keys(n)[i]))
                    \/ str(Keys(n)[j]) = str(Keys(n)[i]) /\ j < i})

\* the greatest value among the children of n
BestValue(n) ==
    CHOOSE v \in Values :
        /\ \E c \in SetOf(Keys(n)) : nodes[ChildAt(n, c)].value = v
        /\ \A c \in SetOf(Keys(n)) : nodes[ChildAt(n, c)].value <= v

\* the first edge of n, in the order of the dict, whose child has value v
FirstWithValue(n, v) ==
    Keys(n)[CHOOSE i \in 1..Len(Keys(n)) :
                /\ nodes[ChildAt(n, Keys(n)[i])].value = v
                /\ \A j \in 1..(i - 1) : nodes[ChildAt(n, Keys(n)[j])].value /= v]

(***************************************************************************)
(* C1 and C2: lookup, under SpecLookup.                                    *)
(***************************************************************************)
EdgeIndexes == 1..Len(Keys(current.node))
EdgeAt(i) == Keys(current.node)[i]
Found == HasKey(current.node, out.key)

\* C1 as the claim states it: for every child edge e of the node, lookup(e),
\* lookup(i) for the place i of e among the edges sorted by str, and lookup(s)
\* for a string s whose similarity to str(e) is the greatest over the edges
\* and at least 0.6, all return the proxy of children[e] with parent edge e.
C1_LookupModesAgree_Original ==
    out.op = "getitem" =>
        \A i \in EdgeIndexes :
            /\ out.key = EdgeAt(i) => out.res = ChildProxy(EdgeAt(i))
            /\ (out.key.t = "int" /\ out.key.v[1] = SortedPosition(current.node, i))
                   => out.res = ChildProxy(EdgeAt(i))
            /\ (/\ out.key.t = "str"
                /\ DOMAIN out.sim /= {}
                /\ out.sim[str(EdgeAt(i))] >= SIMILAR_THRESH
                /\ \A j \in EdgeIndexes : out.sim[str(EdgeAt(j))] <= out.sim[str(EdgeAt(i))])
                   => out.res = ChildProxy(EdgeAt(i))

\* C1 amended: the same three modes return the proxy of children[e] with
\* parent edge e, where the index i and the string s are not themselves edge
\* labels of the node and the similarity of s to str(e) is at least 0.6 and
\* strictly greater than its similarity to every other edge label.
C1_LookupModesAgree ==
    out.op = "getitem" =>
        \A i \in EdgeIndexes :
            /\ out.key = EdgeAt(i) => out.res = ChildProxy(EdgeAt(i))
            /\ (/\ out.key.t = "int"
                /\ ~Found
                /\ out.key.v[1] = SortedPosition(current.node, i))
                   => out.res = ChildProxy(EdgeAt(i))
            /\ (/\ out.key.t = "str"
                /\ ~Found
                /\ out.sim[str(EdgeAt(i))] >= SIMILAR_THRESH
                /\ \A j \in EdgeIndexes \ {i} :
                       out.sim[str(EdgeAt(j))] < out.sim[str(EdgeAt(i))])
                   => out.res = ChildProxy(EdgeAt(i))

\* a string that is no edge label resolves, by similarity, to one child out
\* of three that insertion order and sorted order place differently
C1_Witness ==
    /\ out.op = "getitem"
    /\ out.key.t = "str"
    /\ ~Found
    /\ Len(Keys(current.node)) = 3
    /\ Keys(current.node) /= sorted_by_str(Keys(current.node))
    /\ \E i \in EdgeIndexes :
           /\ out.sim[str(EdgeAt(i))] >= SIMILAR_THRESH
           /\ \A j \in EdgeIndexes \ {i} : out.sim[str(EdgeAt(j))] < out.sim[str(EdgeAt(i))]
           /\ out.res = ChildProxy(EdgeAt(i))

\* C2: an integer key that is no edge label and lies outside
\* [0, len(children)), negative or too large, makes lookup raise IndexError
\* and return no proxy.
C2_IndexOutOfRange ==
    (/\ out.op = "getitem"
     /\ out.key.t = "int"
     /\ ~Found
     /\ out.key.v[1] < 0 \/ out.key.v[1] >= Len(Keys(current.node)))
        => out.res = Raise("IndexError")

(***************************************************************************)
(* C3: render, under SpecRender.                                           *)
(***************************************************************************)
\* C3: print_tree emits one line for exactly the nodes reached from the
\* render root by a path whose nodes below the root all pass the print_type
\* filter and have depth <= max_depth, and each line carries as many branch
\* glyphs as there are edges between its node and the render root.
C3_RenderVisits ==
    out.op = "p" =>
        /\ SetOfNodes(out.lines) =
               {m \in NodeIds : Shown(current.node, m, out.max_depth, out.print_type)}
        /\ \A i, j \in 1..Len(out.lines) : out.lines[i].node = out.lines[j].node => i = j
        /\ \A i \in 1..Len(out.lines) :
               Len(out.lines[i].branches) = EdgesBetween(current.node, out.lines[i].node)

\* a render that prints a grandchild of its root and leaves out a node of
\* the subtree
C3_Witness ==
    /\ out.op = "p"
    /\ \E i \in 1..Len(out.lines) : Len(out.lines[i].branches) = 2
    /\ SetOfNodes(out.lines) /= Subtree(current.node)

(***************************************************************************)
(* C6: layer, under SpecLayer.                                             *)
(***************************************************************************)
\* C6: a layer(d) that does not raise returns exactly the Decision nodes
\* under current whose depth, counted in Action -> Decision edges from
\* current, is d: each once, no Action node, none of another depth.
C6_LayerExact ==
    (out.op = "layer" /\ out.res.ok) =>
        /\ SetOfNodes(out.res.val) =
               {m \in Subtree(current.node) :
                    IsVNode(m) /\ DecisionDepth(current.node, m) = out.depth}
        /\ \A i, j \in 1..Len(out.res.val) :
               out.res.val[i].node = out.res.val[j].node => i = j

\* a layer below current that holds a Decision node, while the subtree has
\* Decision nodes of another depth and Action nodes
C6_Witness ==
    /\ out.op = "layer"
    /\ out.res.ok
    /\ out.depth >= 1
    /\ out.res.val /= <<>>
    /\ \E m \in Subtree(current.node) : IsQNode(m)

(***************************************************************************)
(* C8: the preferred-action trace, under SpecTrace.                        *)
(***************************************************************************)
TraceAllows(depth) == out.max_depth = None \/ depth < out.max_depth[1]

\* C8: for every Decision node with a child that the trace visits, the line
\* names the first child edge, in the order of the dict, of the greatest
\* value; the equally-good list is exactly the other edges of that value;
\* and the trace goes on into that child and no other.
C8_PreferredChild ==
    out.op = "print_preferred_actions" =>
        /\ (Keys(out.tree) /= <<>> /\ TraceAllows(0))
               => (out.trace /= <<>> /\ out.trace[1].node = out.tree)
        /\ \A i \in 1..Len(out.trace) :
               LET n == out.trace[i].node
                   best == out.trace[i].best_child
               IN /\ HasKey(n, best)
                  /\ i < Len(out.trace) => out.trace[i + 1].node = ChildAt(n, best)
                  /\ (i = Len(out.trace) /\ TraceAllows(i))
                         => Keys(ChildAt(n, best)) = <<>>
                  /\ IsVNode(n) =>
                         /\ out.trace[i].printed
                         /\ best = FirstWithValue(n, BestValue(n))
                         /\ SetOf(out.trace[i].equally_good) =
                                {c \in SetOf(Keys(n)) \ {best} :
                                     nodes[ChildAt(n, c)].value = BestValue(n)}
                         /\ Len(out.trace[i].equally_good) =
                                Cardinality(SetOf(out.trace[i].equally_good))

\* a trace that finds a tie at a Decision node, reports the later-inserted
\* child as equally good and goes on into the first
C8_Witness ==
    /\ out.op = "print_preferred_actions"
    /\ Len(out.trace) >= 2
    /\ \E i \in 1..Len(out.trace) :
           IsVNode(out.trace[i].node) /\ out.trace[i].equally_good /= <<>>

(***************************************************************************)
(* C4, C5, C7, C9 and C10: the session, under Spec.                        *)
(***************************************************************************)
DecisionNodes(r) == {m \in Subtree(r) : IsVNode(m)}
ActionNodes(r) == {m \in Subtree(r) : IsQNode(m)}

\* C4: num_nodes('v') is the number of Decision nodes in the subtree under
\* current, num_nodes('q') the number of Action nodes, whatever their visit
\* counts and whatever was rendered before, and num_nodes('all') is their sum.
C4_CountNodes ==
    (out.op = "num_nodes" /\ out.res.ok) =>
        /\ out.kind = "v" => out.res.val = Cardinality(DecisionNodes(current.node))
        /\ out.kind = "q" => out.res.val = Cardinality(ActionNodes(current.node))
        /\ out.kind = "all" => out.res.val = Cardinality(Subtree(current.node))

\* C5: the depth of the debugger, read from statistics computed for the tree
\* as it is, is the greatest depth of a Decision node under current, depth
\* being counted in Action -> Decision edges.
C5_MaxDepth ==
    (/\ out.op = "depth"
     /\ stats_cache[current.id] = tree_stats(current, None)
     /\ DecisionNodes(current.node) /= {})
        => \A m \in DecisionNodes(current.node) :
               /\ DecisionDepth(current.node, m) <= out.res
               /\ \E k \in DecisionNodes(current.node) :
                      DecisionDepth(current.node, k) = out.res

\* C7: with as_debuggers every element layer returns is a TreeDebugger on
\* the Decision node, and without it every element is a bare node.
C7_LayerAsDebuggers ==
    (out.op = "layer" /\ out.res.ok) =>
        \A i \in 1..Len(out.res.val) :
            IF out.as_debuggers
            THEN out.res.val[i].cls = "TreeDebugger"
            ELSE out.res.val[i].cls = "_VNodePP"

\* C9: lookup, render, num_nodes, depth and layer change neither current nor
\* its print_children flag, nor parent_edge, nor any node of the tree.
C9_PureQueries ==
    [][out'.op \in {"getitem", "p", "num_nodes", "depth", "layer"}
           => /\ current' = current
              /\ parent_edge' = parent_edge
              /\ nodes' = nodes]_vars

\* C10: num_nodes and depth return what tree_stats gives on the tree as it
\* is when they are called.
C10_StatsNeverStale ==
    /\ out.op = "num_nodes"
           => out.res = num_nodes(tree_stats(current, None), out.kind)
    /\ out.op = "depth"
           => out.res = tree_stats(current, None).max_depth

====
